---- MODULE Spec2Model ----
(***************************************************************************)
(* A model of gbundle (src/gbundle/gbundle.py): one invocation of main()   *)
(* resolves a commit range, resolves a file set and writes one release     *)
(* bundle; a produced bundle may then be applied to the database, whose    *)
(* release ledger the next invocation reads.                               *)
(*                                                                         *)
(* Text is modelled as sequences of one-character strings so that          *)
(* splitting, stripping, globbing and sorting are computed, not assumed.   *)
(*                                                                         *)
(* What the model takes from the environment:                              *)
(*  - git: a linear branch; repo.commit resolves a unique hash prefix of   *)
(*    at least four characters and raises BadName otherwise; the short     *)
(*    hash is the first eight characters; a rename is a deleted and an     *)
(*    added path with the same content.                                    *)
(*  - the database: one release type (the ledger is read with the default  *)
(*    RELEASE_TYPE, line 275); names are compared character by character;  *)
(*    the script is run batch by batch (a batch ends at a GO line); an      *)
(*    error ends its batch, and the client then either exits or goes on    *)
(*    with the next batch; the statements of the per-file sections run     *)
(*    without error and do not touch the ledger; pr_tag_release_bundle     *)
(*    records the name it is given; names fit VARCHAR(60).                 *)
(*  - sniff_newline_convention (line 173) is called for its value only,    *)
(*    which read_and_decode does not use.                                  *)
(***************************************************************************)
EXTENDS Integers, Sequences, FiniteSets, TLC

(***************************************************************************)
(* Bounds of the model.                                                    *)
(***************************************************************************)
\* Number of commits on the main branch of the modelled repository.
NumCommits == 3
\* Number of distinct clock readings time.strftime can return.
MaxTime == 1
\* Longest file content read_and_decode is applied to on its own.
MaxTextLen == 4

(***************************************************************************)
(* Python values.                                                          *)
(***************************************************************************)
\* Python's None where a string is expected (no text holds this token).
None == <<"<None>">>
\* Python's None where a commit object is expected.
NoCommit == 0

\* Truth value of an optional string: None and "" are both false.
Truthy(s) == s # None /\ s # <<>>

\* Characters in code point order; only their relative order is used.
CodePoints ==
  <<"\t", "\n", "\r", " ", "*", "-", ".", "/", "0", "1", "2", "3", "4",
    "5", "6", "7", "8", "9", "?", "A", "B", "C", "D", "E", "F", "G",
    "H", "I", "J", "K", "L", "M", "N", "O", "P", "Q", "R", "S", "T",
    "U", "V", "W", "X", "Y", "Z", "_", "a", "b", "c", "d", "e", "f",
    "g", "h", "i", "j", "k", "l", "m", "n", "o", "p", "q", "r", "s",
    "t", "u", "v", "w", "x", "y", "z">>

ord(c) == CHOOSE i \in 1..Len(CodePoints) : CodePoints[i] = c

\* Python's str < str: lexicographic by code point, a proper prefix is smaller.
RECURSIVE StrLess(_, _)
StrLess(a, b) ==
  IF b = <<>> THEN FALSE
  ELSE IF a = <<>> THEN TRUE
  ELSE IF Head(a) = Head(b) THEN StrLess(Tail(a), Tail(b))
  ELSE ord(Head(a)) < ord(Head(b))

IsSpace(c) == c \in {" ", "\t", "\n", "\r"}

\* str.strip(): drop leading and trailing whitespace.
RECURSIVE lstrip(_)
lstrip(s) == IF s # <<>> /\ IsSpace(Head(s)) THEN lstrip(Tail(s)) ELSE s

RECURSIVE rstrip(_)
rstrip(s) ==
  IF s # <<>> /\ IsSpace(s[Len(s)]) THEN rstrip(SubSeq(s, 1, Len(s) - 1)) ELSE s

strip(s) == rstrip(lstrip(s))

\* str.split(sep) for a one-character separator: the list of fields, empty
\* fields included ("a--b" has three fields, "" has one).
RECURSIVE split(_, _)
split(s, sep) ==
  IF \E i \in 1..Len(s) : s[i] = sep
  THEN LET i == CHOOSE k \in 1..Len(s) :
                  s[k] = sep /\ \A j \in 1..(k - 1) : s[j] # sep
       IN  <<SubSeq(s, 1, i - 1)>> \o split(SubSeq(s, i + 1, Len(s)), sep)
  ELSE <<s>>

\* fnmatch.fnmatch(name, pat) on a case-sensitive platform: * matches any run
\* of characters (a "/" included), ? matches one character.
RECURSIVE fnmatch(_, _)
fnmatch(name, pat) ==
  IF pat = <<>> THEN name = <<>>
  ELSE IF Head(pat) = "*"
       THEN \/ fnmatch(name, Tail(pat))
            \/ name # <<>> /\ fnmatch(Tail(name), pat)
  ELSE IF name = <<>> THEN FALSE
  ELSE /\ (Head(pat) = "?" \/ Head(pat) = Head(name))
       /\ fnmatch(Tail(name), Tail(pat))

\* sorted(xs) for a list of strings: ascending, repeated elements kept.
RECURSIVE sorted(_)
sorted(xs) ==
  IF xs = <<>> THEN <<>>
  ELSE LET i == CHOOSE k \in 1..Len(xs) :
                  \A j \in 1..Len(xs) : ~StrLess(xs[j], xs[k])
           rest == [k \in 1..(Len(xs) - 1) |-> IF k < i THEN xs[k] ELSE xs[k + 1]]
       IN  <<xs[i]>> \o sorted(rest)

\* A set of strings as a list in some order (iteration order of a Python set).
RECURSIVE SetToSeq(_)
SetToSeq(S) ==
  IF S = {} THEN <<>>
  ELSE LET x == CHOOSE y \in S : TRUE IN <<x>> \o SetToSeq(S \ {x})

(***************************************************************************)
(* Program constants.                                                      *)
(***************************************************************************)
CODE_PATTERN == <<"*", ".", "s", "q", "l">>
RELEASE_TYPE == <<"g", "p", "l", "a", "n", "-", "c", "a", "s">>
\* get_short_sha(repo, sha, length=8)
ShortShaLength == 8

(***************************************************************************)
(* The repository: a linear main branch of NumCommits commits.  Commit i   *)
(* is the i-th commit; the clone's HEAD starts at the tip.                 *)
(***************************************************************************)
Commits == 1..NumCommits
Tip == NumCommits
BadName == -1

HexDigits == <<"0", "1", "2", "3", "4", "5", "6", "7",
               "8", "9", "a", "b", "c", "d", "e", "f">>

\* Commit.hexsha: 40 hex characters, distinct in their first eight.
hexsha(c) == [k \in 1..40 |-> HexDigits[((c * 5 + k * c) % 16) + 1]]

IsPrefix(p, s) == Len(p) <= Len(s) /\ SubSeq(s, 1, Len(p)) = p

\* repo.git.rev_parse(sha, short=length)
get_short_sha(sha, length) == SubSeq(sha, 1, length)

\* repo.commit(rev): the commit an abbreviated or full hash names (git wants
\* at least four hex characters and a unique match); BadName when it names none.
repo_commit(rev) ==
  LET hits == {c \in Commits : Len(rev) >= 4 /\ IsPrefix(rev, hexsha(c))}
  IN  IF Cardinality(hits) = 1 THEN CHOOSE c \in hits : TRUE ELSE BadName

\* Paths of the repository.
P_a   == <<"a", ".", "s", "q", "l">>
P_b   == <<"b", ".", "s", "q", "l">>
P_bad == <<"b", "a", "d", ".", "s", "q", "l">>
P_n   == <<"n", ".", "t", "x", "t">>
P_x   == <<"x", ".", "s", "q", "l">>
AllPaths == {P_a, P_b, P_bad, P_n, P_x}

\* File contents, as bytes: an ASCII byte is its character; "xEFBBBF" is the
\* UTF-8 byte order mark and "xFF" a byte no UTF-8 text contains.
B_ab  == <<"U", "S", "E", " ", "d", "\n", "G", "O", "\n", "s", "\r", "\n">>
B_x1  == <<"s", "\r", "\n", "t", "\n">>
B_x2  == <<"xEFBBBF", "t", "\n", "u", "s", "e", " ", "d", "\r", "\n", "g", "o", "\r", "\n", "v", "\r">>
B_bad == <<"xEFBBBF", "s", "xFF">>
B_n(c) == <<"n", HexDigits[(c % 16) + 1]>>

\* The tree of commit c: path -> bytes.  a.sql is renamed to b.sql in commit
\* 2, x.sql is added in commit 2 and changed in commit 3, bad.sql exists in
\* commit 2 only, n.txt changes in every commit.
tree(c) ==
  [p \in ({P_n} \cup (IF c = 1 THEN {P_a} ELSE {P_b, P_x})
                \cup (IF c = 2 THEN {P_bad} ELSE {})) |->
     IF p = P_n THEN B_n(c)
     ELSE IF p \in {P_a, P_b} THEN B_ab
     ELSE IF p = P_bad THEN B_bad
     ELSE IF c = 2 THEN B_x1 ELSE B_x2]

\* from_commit.diff(to_commit): one (a_path, b_path) entry per changed path;
\* a deleted path and an added path with the same content are one rename.
diff(a, b) ==
  LET ta == tree(a)
      tb == tree(b)
      deleted == DOMAIN ta \ DOMAIN tb
      added   == DOMAIN tb \ DOMAIN ta
      renames == {<<p, q>> \in deleted \X added : ta[p] = tb[q]}
      changed == {p \in DOMAIN ta \cap DOMAIN tb : ta[p] # tb[p]}
  IN  renames
      \cup {<<p, p>> : p \in {d \in deleted : \A r \in renames : r[1] # d}}
      \cup {<<q, q>> : q \in {d \in added : \A r \in renames : r[2] # d}}
      \cup {<<p, p>> : p \in changed}

(***************************************************************************)
(* Reading one file: encoding, newlines, USE/GO stripping.                 *)
(***************************************************************************)
BOM_UTF8 == "xEFBBBF"
\* locale.getpreferredencoding() of the modelled host.
PreferredEncoding == "utf-8"
DecodeFailed == <<"<UnicodeDecodeError>">>

\* sniff_encoding: the encoding a byte order mark names, else None.  (No
\* modelled file starts with an encoding cookie line or a UTF-16 mark.)
sniff_encoding(btext) ==
  IF btext # <<>> /\ Head(btext) = BOM_UTF8 THEN "utf-8-sig" ELSE "None"

\* bytes.decode(encoding): the text, or DecodeFailed on UnicodeDecodeError.
decode(btext, encoding) ==
  IF \E i \in 1..Len(btext) : btext[i] = "xFF" THEN DecodeFailed
  ELSE IF encoding = "utf-8-sig" /\ btext # <<>> /\ Head(btext) = BOM_UTF8
       THEN Tail(btext)
  ELSE btext

\* re.sub("\r\n", NEWLINE, text)
RECURSIVE crlf_to_lf(_)
crlf_to_lf(text) ==
  IF text = <<>> THEN <<>>
  ELSE IF Len(text) >= 2 /\ text[1] = "\r" /\ text[2] = "\n"
       THEN <<"\n">> \o crlf_to_lf(SubSeq(text, 3, Len(text)))
  ELSE <<Head(text)>> \o crlf_to_lf(Tail(text))

\* The first candidate encoding that decodes the bytes, tried in order.
RECURSIVE try_decode(_, _)
try_decode(btext, candidates) ==
  IF candidates = <<>> THEN DecodeFailed
  ELSE LET text == decode(btext, Head(candidates))
       IN  IF text # DecodeFailed THEN text
           ELSE try_decode(btext, Tail(candidates))

read_and_decode(btext) ==
  LET sniffed == sniff_encoding(btext)
      candidate_encodings ==
        IF sniffed # "None" THEN <<sniffed>> ELSE <<"utf-8", PreferredEncoding>>
      text == try_decode(btext, candidate_encodings)
  IN  IF text = DecodeFailed THEN DecodeFailed ELSE crlf_to_lf(text)

\* Helpers of the pattern (?:\n|^)USE\s+.*\nGO\s*\n under re.IGNORECASE.
RECURSIVE SpaceRun(_, _)
SpaceRun(t, q) ==
  IF q <= Len(t) /\ IsSpace(t[q]) THEN 1 + SpaceRun(t, q + 1) ELSE 0

RECURSIVE LineEnd(_, _)
LineEnd(t, r) ==
  IF r > Len(t) \/ t[r] = "\n" THEN r ELSE LineEnd(t, r + 1)

SetMax(S) == CHOOSE m \in S : \A n \in S : n <= m

\* .*\nGO\s*\n from position r: the position after the match, or 0.
TailMatch(t, r) ==
  LET e == LineEnd(t, r)
  IN  IF e + 2 <= Len(t) /\ t[e + 1] \in {"G", "g"} /\ t[e + 2] \in {"O", "o"}
      THEN LET m == SpaceRun(t, e + 3)
               J == {j \in 0..m : e + 3 + j <= Len(t) /\ t[e + 3 + j] = "\n"}
           IN  IF J = {} THEN 0 ELSE e + 3 + SetMax(J) + 1
      ELSE 0

\* USE\s+.*\nGO\s*\n from position p (greedy \s+, backtracking).
RestMatch(t, p) ==
  IF /\ p + 2 <= Len(t)
     /\ t[p] \in {"U", "u"} /\ t[p + 1] \in {"S", "s"} /\ t[p + 2] \in {"E", "e"}
  THEN LET m == SpaceRun(t, p + 3)
           K == {k \in 1..m : TailMatch(t, p + 3 + k) # 0}
       IN  IF K = {} THEN 0 ELSE TailMatch(t, p + 3 + SetMax(K))
  ELSE 0

MatchAt(t, i) ==
  IF i <= Len(t) /\ t[i] = "\n" /\ RestMatch(t, i + 1) # 0 THEN RestMatch(t, i + 1)
  ELSE IF i = 1 THEN RestMatch(t, 1)
  ELSE 0

RECURSIVE strip_use(_, _)
strip_use(t, i) ==
  IF i > Len(t) THEN <<>>
  ELSE LET e == MatchAt(t, i)
       IN  IF e # 0 THEN strip_use(t, e) ELSE <<t[i]>> \o strip_use(t, i + 1)

\* generate_file_contents: the decoded text without its USE ... GO pairs.
generate_file_contents(btext) ==
  LET text == read_and_decode(btext)
  IN  IF text = DecodeFailed THEN DecodeFailed ELSE strip_use(text, 1)

(***************************************************************************)
(* Range resolution, naming and rendering helpers.                         *)
(***************************************************************************)
\* time.strftime("%Y%m%d-%H%M%S") at clock reading t.
strftime(t) ==
  <<"2", "0", "2", "4", "0", "1", "0", HexDigits[(t % 10) + 1]>>
    \o <<"-">> \o <<"1", "2", "0", "0", "0", "0">>

\* parse_dburi_ex(dburi)[2] for a URI of the shape server or server/database:
\* the path after the host, without its leading "/".
parse_dburi_database(dburi) ==
  LET fields == split(dburi, "/")
  IN  IF Len(fields) >= 2 THEN fields[2] ELSE <<>>

\* The same, returning the from field of the name instead of its to field.
get_latest_commit_sha_from_db_from_field(bundle) ==
  IF Truthy(bundle)
  THEN LET fields == split(bundle, "-")
       IN  IF Len(fields) = 3 THEN fields[2] ELSE None
  ELSE None

\* get_latest_commit_sha_from_db: the to field of the recorded bundle name,
\* or None when there is none or it does not unpack into three fields.
get_latest_commit_sha_from_db(bundle) ==
  IF Truthy(bundle)
  THEN LET fields == split(bundle, "-")
       IN  IF Len(fields) = 3 THEN fields[3] ELSE None
  ELSE None

\* get_earliest_commit_from_repo: the last commit iter_commits() yields when
\* walking back from c.
RECURSIVE get_earliest_commit_from_repo(_)
get_earliest_commit_from_repo(c) ==
  IF c - 1 \in Commits THEN get_earliest_commit_from_repo(c - 1) ELSE c

\* get_latest_commit_from_repo: repo.head.commit
get_latest_commit_from_repo(h) == h

get_bundle_name(tag, from, to) ==
  tag \o <<"-">> \o get_short_sha(hexsha(from), ShortShaLength)
      \o <<"-">> \o get_short_sha(hexsha(to), ShortShaLength)

\* One written item of the bundle file.
Item(k, a) == [kind |-> k, arg |-> a]
GO == Item("GO", <<>>)

\* The prologue with the operands of the guard exchanged.
generate_prologue_swapped(release_type, name, dbname) ==
  (IF Truthy(dbname) THEN <<Item("USE", dbname), GO>> ELSE <<>>)
    \o <<Item("DECLARE_RELEASE", name),
         Item("DECLARE_CURRENT", release_type),
         Item("IF_LESS_THROW", <<"@v_current_bundle", "@v_release_bundle">>)>>

\* USE <db> and GO when a database name is given; DECLARE @v_release_bundle =
\* '<name>'; DECLARE @v_current_bundle = release.fn_release_bundle('<type>');
\* IF <left> < <right> THROW, with the two variables in the order written.
generate_prologue(release_type, name, dbname) ==
  (IF Truthy(dbname) THEN <<Item("USE", dbname), GO>> ELSE <<>>)
    \o <<Item("DECLARE_RELEASE", name),
         Item("DECLARE_CURRENT", release_type),
         Item("IF_LESS_THROW", <<"@v_release_bundle", "@v_current_bundle">>)>>

generate_epilogue(release_type, name) == <<Item("TAG", name)>>

generate_separator == <<GO>>

\* get_rel_filepaths_between_commits: both paths of every diff entry.
get_rel_filepaths_between_commits(from, to) ==
  {d[1] : d \in diff(from, to)} \cup {d[2] : d \in diff(from, to)}

\* The explicit file lists a run can be given (files_filepath -> its lines).
F1 == <<"f", "1">>
F2 == <<"f", "2">>
FileLines(path) ==
  IF path = F1
  THEN <<P_x \o <<"\n">>, <<" ">> \o P_b \o <<" ", "\n">>, P_x \o <<"\n">>,
         P_n \o <<"\n">>, P_a \o <<"\n">>>>
  ELSE <<P_n \o <<"\n">>, P_b>>

\* The condition of the guard, as the engine evaluates it on the values of
\* its left and right operand: a comparison with NULL is unknown, so nothing
\* is thrown when no bundle is recorded.
GuardThrows(release, current) ==
  release # None /\ current # None /\ StrLess(release, current)

(***************************************************************************)
(* The database a bundle is applied to.                                    *)
(***************************************************************************)
\* release.fn_release_bundle(<type>): the name recorded for the release type.
fn_release_bundle(release_type, recorded) ==
  IF release_type = RELEASE_TYPE THEN recorded ELSE None

\* The batches of a script: the statements between one GO line and the next.
RECURSIVE Batches(_)
Batches(items) ==
  IF items = <<>> THEN <<>>
  ELSE IF \E i \in 1..Len(items) : items[i].kind = "GO"
       THEN LET i == CHOOSE k \in 1..Len(items) :
                       items[k].kind = "GO" /\ \A j \in 1..(k - 1) : items[j].kind # "GO"
            IN  <<SubSeq(items, 1, i - 1)>> \o Batches(SubSeq(items, i + 1, Len(items)))
       ELSE <<items>>

\* The variables of a batch before its DECLARE statements.
NoVars == [v \in {"@v_release_bundle", "@v_current_bundle"} |-> None]

\* One batch, statement by statement: the recorded name it leaves and whether
\* it raised.  THROW ends the batch; what an earlier statement did stays.
RECURSIVE RunBatch(_, _, _)
RunBatch(stmts, env, recorded) ==
  IF stmts = <<>> THEN [ledger |-> recorded, raised |-> FALSE]
  ELSE LET s == Head(stmts)
       IN  CASE s.kind = "DECLARE_RELEASE" ->
                  RunBatch(Tail(stmts),
                           [env EXCEPT !["@v_release_bundle"] = s.arg], recorded)
             [] s.kind = "DECLARE_CURRENT" ->
                  RunBatch(Tail(stmts),
                           [env EXCEPT !["@v_current_bundle"] =
                                          fn_release_bundle(s.arg, recorded)],
                           recorded)
             [] s.kind = "IF_LESS_THROW" ->
                  IF GuardThrows(env[s.arg[1]], env[s.arg[2]])
                  THEN [ledger |-> recorded, raised |-> TRUE]
                  ELSE RunBatch(Tail(stmts), env, recorded)
             [] s.kind = "TAG" -> RunBatch(Tail(stmts), env, s.arg)
             [] OTHER -> RunBatch(Tail(stmts), env, recorded)

\* The batches in order.  After a batch that raised, a client told to exit
\* on error runs nothing more; any other client runs the next batch.
RECURSIVE RunScript(_, _, _)
RunScript(batches, recorded, on_error) ==
  IF batches = <<>> THEN [ledger |-> recorded, raised |-> FALSE]
  ELSE LET r == RunBatch(Head(batches), NoVars, recorded)
       IN  IF r.raised /\ on_error = "exit" THEN r
           ELSE LET rest == RunScript(Tail(batches), r.ledger, on_error)
                IN  [ledger |-> rest.ledger, raised |-> r.raised \/ rest.raised]

(***************************************************************************)
(* State.                                                                  *)
(***************************************************************************)
VARIABLES
  pc,              \* position of main(): idle, resolve_from, ..., done, failed
  err,             \* the exception that ended the run, "" when none
  ledger,          \* bundle name release.fn_release_bundle returns, or None
  releases_isdir,  \* whether <repo>/<releases_relpath> is a directory
  release_tag,     \* main's release_tag (after defaulting)
  db,              \* whether main holds a database connection
  database_name,   \* database part of dburi, or None
  from_arg,        \* from_commit as passed in
  to_arg,          \* to_commit as passed in
  files_filepath,  \* files_filepath as passed in
  from_commit,     \* resolved from commit, NoCommit before
  to_commit,       \* resolved to commit, NoCommit before
  head,            \* commit the clone's working tree is at
  checked_out,     \* checkout_to_specific_commit has run
  rel_filepaths,   \* the resolved file list, None before
  bundle_name,     \* the bundle name, None before
  bundle_exists,   \* the bundle file has been created
  bundle,          \* items written to the bundle file so far
  todo,            \* sorted paths the file loop has yet to visit
  ledger_queried,  \* this run has read the ledger
  history_walked,  \* this run has walked the history to the root
  apply_result,    \* last application of this bundle: none, thrown, tagged
  current_bundle,  \* the name recorded when that application began
  file_bytes,      \* content of the file a lone read_and_decode call reads
  decoded_text     \* what that call returned, None before it returns

vars == <<pc, err, ledger, releases_isdir, release_tag, db, database_name,
          from_arg, to_arg, files_filepath, from_commit, to_commit, head,
          checked_out, rel_filepaths, bundle_name, bundle_exists, bundle, todo,
          ledger_queried, history_walked, apply_result, current_bundle,
          file_bytes, decoded_text>>

short(c) == get_short_sha(hexsha(c), ShortShaLength)

\* Inputs the model draws from.
FromArgs == {None, short(1), short(Tip)}
ToArgs == {None, short(1), short(2)}
TagArgs == {None, <<"R">>, <<"v", "-", "1">>}
DbUriArgs == {None, <<"S", "V", "/", "D">>}
FilesArgs == {None, F1, F2}
Clock == 1..MaxTime
\* Ledger contents before the first run: nothing recorded, an empty name, a
\* two-field name, a three-field name whose fields are not hashes, a
\* three-field name whose last field is empty.
LedgerInit ==
  {None, <<>>, <<"R", "-", "x">>, <<"R", "-", "z", "z", "-", "y", "y">>,
   <<"R", "-", "x", "-">>}

Idle ==
  /\ pc = "idle" /\ err = ""
  /\ releases_isdir = TRUE
  /\ release_tag = None /\ db = FALSE /\ database_name = None
  /\ from_arg = None /\ to_arg = None /\ files_filepath = None
  /\ from_commit = NoCommit /\ to_commit = NoCommit
  /\ head = Tip /\ checked_out = FALSE
  /\ rel_filepaths = None /\ bundle_name = None
  /\ bundle_exists = FALSE /\ bundle = <<>> /\ todo = <<>>
  /\ ledger_queried = FALSE /\ history_walked = FALSE
  /\ apply_result = "none" /\ current_bundle = None

Init == Idle /\ ledger \in LedgerInit /\ file_bytes = <<>> /\ decoded_text = None

(***************************************************************************)
(* main(), step by step.                                                   *)
(***************************************************************************)
Fail(e) == pc' = "failed" /\ err' = e

\* Lines 400-415: connect, clone, default the tag.
Invoke(tag, dburi, pyodbc, f, t, files, isdir, now) ==
  /\ pc = "idle"
  /\ db' = (Truthy(dburi) /\ pyodbc)
  /\ database_name' = IF Truthy(dburi) THEN parse_dburi_database(dburi) ELSE None
  /\ head' = Tip
  /\ release_tag' = IF ~Truthy(tag) THEN strftime(now) ELSE tag
  /\ from_arg' = f /\ to_arg' = t /\ files_filepath' = files
  /\ releases_isdir' = isdir
  /\ pc' = "resolve_from"
  /\ UNCHANGED <<err, ledger, from_commit, to_commit, checked_out, rel_filepaths,
                 bundle_name, bundle_exists, bundle, todo, ledger_queried,
                 history_walked, apply_result,
                 current_bundle>>
  /\ UNCHANGED <<file_bytes, decoded_text>>

\* Lines 423-430: command line, then database, then earliest commit.
ResolveFrom ==
  /\ pc = "resolve_from"
  /\ LET explicit == IF Truthy(from_arg) THEN repo_commit(from_arg) ELSE NoCommit
         query == explicit = NoCommit /\ db
         sha == IF query THEN get_latest_commit_sha_from_db(ledger) ELSE None
         from_db == IF Truthy(sha) THEN repo_commit(sha) ELSE explicit
         walk == from_db = NoCommit
     IN  /\ ledger_queried' = query
         /\ history_walked' = walk
         /\ IF from_db = BadName
            THEN Fail("BadName") /\ UNCHANGED from_commit
            ELSE /\ from_commit' =
                      IF walk THEN get_earliest_commit_from_repo(head) ELSE from_db
                 /\ pc' = "resolve_to" /\ UNCHANGED err
  /\ UNCHANGED <<ledger, releases_isdir, release_tag, db, database_name, from_arg,
                 to_arg, files_filepath, to_commit, head, checked_out,
                 rel_filepaths, bundle_name, bundle_exists, bundle, todo,
                 apply_result,
                 current_bundle>>
  /\ UNCHANGED <<file_bytes, decoded_text>>

\* The range check left out.
no_changes_unchecked(from, to) == FALSE

\* Line 441: from_commit == to_commit
no_changes(from, to) == from = to

\* Lines 437-442: command line, then branch tip; equal commits are an error.
ResolveTo ==
  /\ pc = "resolve_to"
  /\ LET explicit == IF Truthy(to_arg) THEN repo_commit(to_arg) ELSE NoCommit
         to == IF explicit = NoCommit THEN get_latest_commit_from_repo(head)
               ELSE explicit
     IN  IF to = BadName
         THEN Fail("BadName") /\ UNCHANGED to_commit
         ELSE /\ to_commit' = to
              /\ IF no_changes(from_commit, to)
                 THEN Fail("NoChanges")
                 ELSE pc' = "checkout" /\ UNCHANGED err
  /\ UNCHANGED <<ledger, releases_isdir, release_tag, db, database_name, from_arg,
                 to_arg, files_filepath, from_commit, head, checked_out,
                 rel_filepaths, bundle_name, bundle_exists, bundle, todo,
                 ledger_queried, history_walked, apply_result,
                 current_bundle>>
  /\ UNCHANGED <<file_bytes, decoded_text>>

\* Line 448: checkout_to_specific_commit(repo, to_commit)
Checkout ==
  /\ pc = "checkout"
  /\ head' = to_commit
  /\ checked_out' = TRUE
  /\ pc' = "resolve_files"
  /\ UNCHANGED <<err, ledger, releases_isdir, release_tag, db, database_name,
                 from_arg, to_arg, files_filepath, from_commit, to_commit,
                 rel_filepaths, bundle_name, bundle_exists, bundle, todo,
                 ledger_queried, history_walked, apply_result,
                 current_bundle>>
  /\ UNCHANGED <<file_bytes, decoded_text>>

\* Lines 454-458: the listed files, else the files the diff names.
ResolveFiles ==
  /\ pc = "resolve_files"
  /\ rel_filepaths' =
       IF Truthy(files_filepath)
       THEN [i \in 1..Len(FileLines(files_filepath)) |->
               strip(FileLines(files_filepath)[i])]
       ELSE SetToSeq(get_rel_filepaths_between_commits(from_commit, to_commit))
  /\ pc' = "locate"
  /\ UNCHANGED <<err, ledger, releases_isdir, release_tag, db, database_name,
                 from_arg, to_arg, files_filepath, from_commit, to_commit, head,
                 checked_out, bundle_name, bundle_exists, bundle, todo,
                 ledger_queried, history_walked, apply_result,
                 current_bundle>>
  /\ UNCHANGED <<file_bytes, decoded_text>>

\* The directory check left out.
releases_dir_missing_unchecked == FALSE

\* Line 464: not os.path.isdir(releases_dirpath)
releases_dir_missing == ~releases_isdir

\* Lines 463-467: the releases directory must exist; name the bundle.
LocateBundle ==
  /\ pc = "locate"
  /\ IF releases_dir_missing
     THEN Fail("NoReleasesDir") /\ UNCHANGED bundle_name
     ELSE /\ bundle_name' = get_bundle_name(release_tag, from_commit, to_commit)
          /\ pc' = "open" /\ UNCHANGED err
  /\ UNCHANGED <<ledger, releases_isdir, release_tag, db, database_name, from_arg,
                 to_arg, files_filepath, from_commit, to_commit, head,
                 checked_out, rel_filepaths, bundle_exists, bundle, todo,
                 ledger_queried, history_walked, apply_result,
                 current_bundle>>
  /\ UNCHANGED <<file_bytes, decoded_text>>

\* Lines 353-363: create the file, write prologue and separator, sort.
OpenBundle ==
  /\ pc = "open"
  /\ bundle_exists' = TRUE
  /\ bundle' = generate_prologue(RELEASE_TYPE, bundle_name, database_name)
                 \o generate_separator
  /\ todo' = sorted(rel_filepaths)
  /\ pc' = "files"
  /\ UNCHANGED <<err, ledger, releases_isdir, release_tag, db, database_name,
                 from_arg, to_arg, files_filepath, from_commit, to_commit, head,
                 checked_out, rel_filepaths, bundle_name, ledger_queried,
                 history_walked, apply_result,
                 current_bundle>>
  /\ UNCHANGED <<file_bytes, decoded_text>>

\* os.path.exists of a relative path in the working tree.
exists(relpath) == relpath \in DOMAIN tree(head)

\* The pattern test left out.
Selected_any_pattern(relpath) == exists(relpath)

\* Whether the loop body writes a section for relpath (lines 365-366).
Selected(relpath) == fnmatch(relpath, CODE_PATTERN) /\ exists(relpath)

\* Lines 363-374: one iteration of the file loop.
AddFile ==
  /\ pc = "files" /\ todo # <<>>
  /\ LET relpath == Head(todo)
     IN  IF Selected(relpath)
         THEN LET contents == generate_file_contents(tree(head)[relpath])
              IN  IF contents = DecodeFailed
                  THEN /\ bundle' = Append(bundle, Item("BANNER", relpath))
                       /\ Fail("UnicodeDecodeError")
                       /\ UNCHANGED todo
                  ELSE /\ bundle' = bundle \o <<Item("BANNER", relpath),
                                                 Item("BODY", contents)>>
                                           \o generate_separator
                       /\ todo' = Tail(todo)
                       /\ UNCHANGED <<pc, err>>
         ELSE todo' = Tail(todo) /\ UNCHANGED <<pc, err, bundle>>
  /\ UNCHANGED <<ledger, releases_isdir, release_tag, db, database_name, from_arg,
                 to_arg, files_filepath, from_commit, to_commit, head,
                 checked_out, rel_filepaths, bundle_name, bundle_exists,
                 ledger_queried, history_walked, apply_result,
                 current_bundle>>
  /\ UNCHANGED <<file_bytes, decoded_text>>

\* Lines 379-380: epilogue and separator; the file is closed.
WriteEpilogue ==
  /\ pc = "files" /\ todo = <<>>
  /\ bundle' = bundle \o generate_epilogue(RELEASE_TYPE, bundle_name)
                      \o generate_separator
  /\ pc' = "done"
  /\ UNCHANGED <<err, ledger, releases_isdir, release_tag, db, database_name,
                 from_arg, to_arg, files_filepath, from_commit, to_commit, head,
                 checked_out, rel_filepaths, bundle_name, bundle_exists, todo,
                 ledger_queried, history_walked, apply_result,
                 current_bundle>>
  /\ UNCHANGED <<file_bytes, decoded_text>>

\* The written bundle is run against the database by some client.  "thrown":
\* a batch raised (whatever the client ran afterwards); "tagged": none did.
ApplyBundle ==
  /\ pc = "done"
  /\ \E on_error \in {"exit", "continue"} :
       LET r == RunScript(Batches(bundle), ledger, on_error)
       IN  /\ ledger' = r.ledger
           /\ apply_result' = IF r.raised THEN "thrown" ELSE "tagged"
  /\ current_bundle' = ledger
  /\ UNCHANGED <<pc, err, releases_isdir, release_tag, db, database_name,
                 from_arg, to_arg, files_filepath, from_commit, to_commit, head,
                 checked_out, rel_filepaths, bundle_name, bundle_exists, bundle,
                 todo, ledger_queried, history_walked>>
  /\ UNCHANGED <<file_bytes, decoded_text>>

\* The process ends; the next invocation starts afresh.
Exit ==
  /\ pc \in {"done", "failed"}
  /\ pc' = "idle" /\ err' = ""
  /\ releases_isdir' = TRUE
  /\ release_tag' = None /\ db' = FALSE /\ database_name' = None
  /\ from_arg' = None /\ to_arg' = None /\ files_filepath' = None
  /\ from_commit' = NoCommit /\ to_commit' = NoCommit
  /\ head' = Tip /\ checked_out' = FALSE
  /\ rel_filepaths' = None /\ bundle_name' = None
  /\ bundle_exists' = FALSE /\ bundle' = <<>> /\ todo' = <<>>
  /\ ledger_queried' = FALSE /\ history_walked' = FALSE
  /\ apply_result' = "none" /\ current_bundle' = None
  /\ UNCHANGED ledger
  /\ UNCHANGED <<file_bytes, decoded_text>>

Next ==
  \/ \E tag \in TagArgs, dburi \in DbUriArgs, pyodbc \in BOOLEAN,
        f \in FromArgs, t \in ToArgs, files \in FilesArgs, isdir \in BOOLEAN,
        now \in Clock :
       Invoke(tag, dburi, pyodbc, f, t, files, isdir, now)
  \/ ResolveFrom
  \/ ResolveTo
  \/ Checkout
  \/ ResolveFiles
  \/ LocateBundle
  \/ OpenBundle
  \/ AddFile
  \/ WriteEpilogue
  \/ ApplyBundle
  \/ Exit

Spec == Init /\ [][Next]_vars

(***************************************************************************)
(* read_and_decode on its own: one call on a file of any content over      *)
(* carriage return, line feed and an ordinary character.                   *)
(***************************************************************************)
TextChars == {"\r", "\n", "s"}

RECURSIVE TextsOfLen(_)
TextsOfLen(n) ==
  IF n = 0 THEN {<<>>}
  ELSE {<<c>> \o t : c \in TextChars, t \in TextsOfLen(n - 1)}

Texts == UNION {TextsOfLen(n) : n \in 0..MaxTextLen}

InitNorm == Idle /\ ledger = None /\ file_bytes \in Texts /\ decoded_text = None

\* Lines 139-176: the file is read, decoded and its newlines rewritten.
ReadAndDecode ==
  /\ decoded_text = None
  /\ decoded_text' = read_and_decode(file_bytes)
  /\ UNCHANGED <<pc, err, ledger, releases_isdir, release_tag, db, database_name,
                 from_arg, to_arg, files_filepath, from_commit, to_commit, head,
                 checked_out, rel_filepaths, bundle_name, bundle_exists, bundle,
                 todo, ledger_queried, history_walked, apply_result,
                 current_bundle, file_bytes>>

NextNorm == ReadAndDecode

SpecNorm == InitNorm /\ [][NextNorm]_vars

(***************************************************************************)
(* Vocabulary of the properties.                                           *)
(***************************************************************************)
\* The commit whose eight-character short hash is ref.
CommitNamed(ref) == CHOOSE c \in Commits : short(c) = ref

Hyphens(name) == {i \in 1..Len(name) : name[i] = "-"}

\* name is <tag>-<from>-<to>: exactly two hyphens, and a to field.
ParsesAsBundleName(name) ==
  /\ Truthy(name)
  /\ Cardinality(Hyphens(name)) = 2
  /\ SetMax(Hyphens(name)) < Len(name)

ToField(name) == SubSeq(name, SetMax(Hyphens(name)) + 1, Len(name))

IsHex8(f) == Len(f) = 8 /\ \A i \in 1..Len(f) : \E k \in 1..16 : HexDigits[k] = f[i]

\* name matches ^[^-]*-[0-9a-f]{8}-[0-9a-f]{8}$
MatchesGrammar(name) ==
  /\ name # None
  /\ Cardinality(Hyphens(name)) = 2
  /\ LET i == CHOOSE h \in Hyphens(name) : \A g \in Hyphens(name) : h <= g
         j == SetMax(Hyphens(name))
     IN  IsHex8(SubSeq(name, i + 1, j - 1)) /\ IsHex8(SubSeq(name, j + 1, Len(name)))

\* The run has resolved from (and the ledger still holds what the run read).
FromResolved == from_commit # NoCommit /\ apply_result = "none"
ToResolved == to_commit # NoCommit

\* Paths that have a per-file section in the bundle file.
SectionPaths == {bundle[i].arg : i \in {k \in 1..Len(bundle) : bundle[k].kind = "BANNER"}}

\* The banner paths in the order written.
RECURSIVE Banners(_)
Banners(items) ==
  IF items = <<>> THEN <<>>
  ELSE IF Head(items).kind = "BANNER" THEN <<Head(items).arg>> \o Banners(Tail(items))
  ELSE Banners(Tail(items))

EndsWithSql(path) ==
  Len(path) >= 4 /\ SubSeq(path, Len(path) - 3, Len(path)) = <<".", "s", "q", "l">>

ListedPaths == {strip(FileLines(files_filepath)[i]) :
                  i \in 1..Len(FileLines(files_filepath))}

(***************************************************************************)
(* C1: from is the explicit commit when one is given, else the commit the  *)
(* to field of the recorded bundle name names when the ledger is read and  *)
(* the name parses as <tag>-<from>-<to>, else the earliest commit; to is   *)
(* the explicit commit when given, else the branch tip; with both given    *)
(* the ledger is not read and the history is not walked.                   *)
(***************************************************************************)
C1_RangePriorityChain ==
  /\ FromResolved =>
       /\ from_commit =
            IF Truthy(from_arg) THEN CommitNamed(from_arg)
            ELSE IF db /\ ParsesAsBundleName(ledger) THEN CommitNamed(ToField(ledger))
            ELSE 1
       /\ ledger_queried = (~Truthy(from_arg) /\ db)
       /\ history_walked = (~Truthy(from_arg) /\ ~(db /\ ParsesAsBundleName(ledger)))
  /\ ToResolved =>
       to_commit = IF Truthy(to_arg) THEN CommitNamed(to_arg) ELSE Tip
  /\ (pc \notin {"idle", "resolve_from"} /\ Truthy(from_arg) /\ Truthy(to_arg)) =>
       ~ledger_queried /\ ~history_walked

\* No explicit from, the ledger holds R-<short 1>-<short 2>: from is commit 2.
C1_Witness ==
  /\ pc = "resolve_to" /\ from_arg = None /\ ledger_queried
  /\ ledger = <<"R", "-">> \o short(1) \o <<"-">> \o short(2)
  /\ from_commit = 2

(***************************************************************************)
(* C2: when the resolved from and to are the same commit the run fails     *)
(* with the no-changes error, and nothing after the check has happened:    *)
(* no checkout, no file set, no bundle file.                               *)
(***************************************************************************)
C2_EqualRangeFailsFirst ==
  (FromResolved /\ ToResolved /\ from_commit = to_commit) =>
     /\ pc = "failed" /\ err = "NoChanges"
     /\ ~checked_out /\ head = Tip
     /\ rel_filepaths = None
     /\ bundle_name = None /\ ~bundle_exists /\ bundle = <<>>

\* A ledger-derived from that equals the branch tip.
C2_Witness ==
  /\ err = "NoChanges" /\ ledger_queried /\ ~history_walked
  /\ to_arg = None /\ from_commit = Tip

(***************************************************************************)
(* C3 (as claimed): with no explicit from, a ledger value that is absent   *)
(* or does not match ^[^-]*-[0-9a-f]{8}-[0-9a-f]{8}$ never fails the run   *)
(* during range resolution; from is the earliest commit.                   *)
(***************************************************************************)
C3_UnparsableLedgerFallsThrough ==
  (pc \notin {"idle", "resolve_from"} /\ apply_result = "none"
     /\ ~Truthy(from_arg) /\ db /\ ~MatchesGrammar(ledger)) =>
       /\ err # "BadName"
       /\ from_commit = 1 /\ history_walked

(***************************************************************************)
(* C4 (as claimed): every generated bundle name splits on "-" into three   *)
(* non-empty fields, the last two the short hashes of from and to, so the  *)
(* next run, reading it from the ledger, resolves from to this run's to.   *)
(***************************************************************************)
C4_BundleNameRoundTrip ==
  bundle_name # None =>
     /\ Cardinality(Hyphens(bundle_name)) = 2
     /\ \A i \in 1..3 : split(bundle_name, "-")[i] # <<>>
     /\ split(bundle_name, "-")[2] = short(from_commit)
     /\ split(bundle_name, "-")[3] = short(to_commit)
     /\ ParsesAsBundleName(bundle_name)
     /\ CommitNamed(ToField(bundle_name)) = to_commit

(***************************************************************************)
(* C5 (as claimed): applying a bundle throws exactly when the recorded     *)
(* bundle name is greater than or equal to the new one, so each            *)
(* application that records a name records a strictly greater one.         *)
(***************************************************************************)
C5_GuardRejectsGreaterOrEqual ==
  apply_result # "none" =>
     /\ (apply_result = "thrown") =
          (current_bundle # None /\ ~StrLess(current_bundle, bundle_name))
     /\ (apply_result = "tagged" /\ current_bundle # None) =>
          StrLess(current_bundle, ledger)

(***************************************************************************)
(* C5 (amended): the guard of an applied bundle throws exactly when a      *)
(* bundle name is recorded and the new name is strictly less than it; an   *)
(* equal name passes, and an application whose guard does not throw leaves *)
(* a recorded name that is not less than the one it found.                 *)
(***************************************************************************)
C5_GuardRejectsOlder ==
  apply_result # "none" =>
     /\ (apply_result = "thrown") =
          (current_bundle # None /\ StrLess(bundle_name, current_bundle))
     /\ (current_bundle # None /\ current_bundle = bundle_name) =>
          apply_result = "tagged"
     /\ (apply_result = "tagged" /\ current_bundle # None) =>
          ~StrLess(ledger, current_bundle)

\* The guard threw over a greater recorded name.
C5_Witness ==
  /\ apply_result = "thrown"
  /\ current_bundle # None
  /\ StrLess(bundle_name, current_bundle)

(***************************************************************************)
(* C6 (as claimed): after a decode failure the bundle file has not been    *)
(* created or holds nothing.                                               *)
(***************************************************************************)
C6_NoPartialBundle ==
  err = "UnicodeDecodeError" => (~bundle_exists \/ bundle = <<>>)

(***************************************************************************)
(* C7 (as claimed): a run whose releases directory is missing fails        *)
(* before the range is resolved, before the checkout, before the file set  *)
(* is resolved and before any bundle content is computed or written.       *)
(***************************************************************************)
C7_MissingDirFailsBeforeProcessing ==
  err = "NoReleasesDir" =>
     /\ from_commit = NoCommit /\ to_commit = NoCommit
     /\ ~ledger_queried /\ ~history_walked
     /\ ~checked_out
     /\ rel_filepaths = None
     /\ bundle_name = None /\ ~bundle_exists /\ bundle = <<>>

(***************************************************************************)
(* C7 (amended): a run whose releases directory is missing never names,    *)
(* creates or writes a bundle and never completes; it fails with the       *)
(* missing-directory error once the range is resolved (from # to), the     *)
(* repository is checked out to `to` and the file set is resolved, unless  *)
(* an earlier step has already failed the run.                             *)
(***************************************************************************)
C7_MissingDirFailsBeforeBundle ==
  /\ (pc # "idle" /\ ~releases_isdir) =>
        /\ bundle_name = None /\ ~bundle_exists /\ bundle = <<>>
        /\ pc \notin {"open", "files", "done"}
        /\ (pc = "failed") => err \in {"BadName", "NoChanges", "NoReleasesDir"}
  /\ err = "NoReleasesDir" =>
        /\ ~releases_isdir
        /\ from_commit # NoCommit /\ to_commit # NoCommit /\ from_commit # to_commit
        /\ checked_out /\ head = to_commit
        /\ rel_filepaths # None

C7_Witness ==
  /\ err = "NoReleasesDir" /\ ledger_queried /\ checked_out /\ rel_filepaths # None

(***************************************************************************)
(* C8 (as claimed): with an explicit file list, the paths with a section   *)
(* are exactly the distinct trimmed lines that exist in the working tree   *)
(* at `to`, whether or not they match the code pattern.                    *)
(***************************************************************************)
C8_FileListNotFiltered ==
  (pc = "done" /\ Truthy(files_filepath)) =>
     SectionPaths = {p \in ListedPaths : p \in DOMAIN tree(to_commit)}

\* The bundle file is prologue (USE and its GO first exactly when a database
\* name is present), separator, sections of banner, body, separator, then
\* epilogue, separator.
RenderingOrder ==
  LET u == IF Truthy(database_name) THEN 2 ELSE 0
      n == Len(bundle)
      k == (n - u - 6) \div 3
  IN  /\ n >= u + 6 /\ n = u + 6 + 3 * k
      /\ Truthy(database_name) =>
           bundle[1] = Item("USE", database_name) /\ bundle[2] = GO
      /\ \A i \in 1..n : bundle[i].kind = "USE" => (i = 1 /\ Truthy(database_name))
      /\ bundle[u + 1] = Item("DECLARE_RELEASE", bundle_name)
      /\ bundle[u + 2] = Item("DECLARE_CURRENT", RELEASE_TYPE)
      /\ bundle[u + 3].kind = "IF_LESS_THROW"
      /\ bundle[u + 4] = GO
      /\ \A j \in 0..(k - 1) :
           /\ bundle[u + 5 + 3 * j].kind = "BANNER"
           /\ bundle[u + 6 + 3 * j].kind = "BODY"
           /\ bundle[u + 7 + 3 * j] = GO
      /\ bundle[n - 1] = Item("TAG", bundle_name)
      /\ bundle[n] = GO

(***************************************************************************)
(* C9 (as claimed): a written bundle is prologue (USE first exactly when   *)
(* a database name is present), separator, per-file sections of banner,    *)
(* body, separator, then epilogue, separator; and the banner paths are     *)
(* strictly increasing, so no path has two sections.                       *)
(***************************************************************************)
C9_OrderAndUniqueSections ==
  pc = "done" =>
     /\ RenderingOrder
     /\ \A i \in 1..(Len(Banners(bundle)) - 1) :
          StrLess(Banners(bundle)[i], Banners(bundle)[i + 1])

(***************************************************************************)
(* C10: with no explicit file list, the paths with a section are exactly   *)
(* the pre-image and post-image paths of the diff entries between from     *)
(* and to that match the pattern and exist in the working tree at `to`; a  *)
(* candidate that is absent there is skipped and the run completes.        *)
(***************************************************************************)
C10_DiffSelection ==
  /\ (pc = "done" /\ ~Truthy(files_filepath)) =>
       SectionPaths =
         {p \in AllPaths :
            /\ \E d \in diff(from_commit, to_commit) : p = d[1] \/ p = d[2]
            /\ EndsWithSql(p)
            /\ p \in DOMAIN tree(to_commit)}
  /\ (pc \in {"files", "done", "failed"} /\ bundle_exists /\ ~Truthy(files_filepath)) =>
       /\ SectionPaths \subseteq DOMAIN tree(to_commit)
       /\ err \in {"", "UnicodeDecodeError"}

\* The rename a.sql -> b.sql: both names are candidates, a.sql is absent at
\* `to` and skipped, b.sql has its section, the run completed.
C10_Witness ==
  /\ pc = "done" /\ ~Truthy(files_filepath)
  /\ <<P_a, P_b>> \in diff(from_commit, to_commit)
  /\ P_a \notin DOMAIN tree(to_commit)
  /\ P_b \in SectionPaths /\ P_a \notin SectionPaths

(***************************************************************************)
(* C11 (as claimed): for every file text over carriage return, line feed   *)
(* and ordinary characters, in any arrangement, the text read_and_decode   *)
(* returns contains no carriage return.                                    *)
(***************************************************************************)
C11_NoCarriageReturn ==
  decoded_text # None => \A i \in 1..Len(decoded_text) : decoded_text[i] # "\r"

====
